---- MODULE Spec2Model ----
(***************************************************************************)
(* Registry authentication of dkregistry (src/v2/auth.rs): the challenge   *)
(* parser, the token-endpoint URL, and the authenticate / is_auth flows of *)
(* Client, run against a registry and a token server whose answers are     *)
(* chosen freely per request and stay fixed until the servers change.      *)
(***************************************************************************)
EXTENDS Integers, Sequences, FiniteSets, TLC

(* ---------------------------------------------------------------- bounds *)
MaxTokLen == 2
MaxAttrs == 1
MaxCalls == 2

MaxScopes == 3

MaxMaskLen == 5

MaxPairs == 3

(* ------------------------------------------------------- Option<T> values *)
None == <<>>
Some(v) == <<v>>
IsSome(o) == Len(o) = 1
Unwrap(o) == o[1]

(* --------------------------------------------------------- HTTP statuses *)
StatusOK == 200
StatusUnauthorized == 401
Statuses == {StatusOK, StatusUnauthorized, 500}

(* send(): a transport failure (ok = FALSE) or a response with a status *)
SendError == [ok |-> FALSE, status |-> 0]
SendReplies == {SendError} \cup [ok : {TRUE}, status : Statuses]

(* ------------------------------------------------------------ characters *)
Lower == {"a","b","c","d","e","f","g","h","i","j","k","l","m",
          "n","o","p","q","r","s","t","u","v","w","x","y","z"}
Upper == {"A","B","C","D","E","F","G","H","I","J","K","L","M",
          "N","O","P","Q","R","S","T","U","V","W","X","Y","Z"}
Digit == {"0","1","2","3","4","5","6","7","8","9"}
SchemeChars == Lower \cup Upper \cup Digit \cup {"+", "-", "."}
SpecialSchemes == {"http", "https", "ws", "wss", "ftp"}

CharAt(s, i) == SubSeq(s, i, i)

(* Url::parse: Ok iff the string starts with a scheme ([A-Za-z][A-Za-z0-9+.-]*
   then ':'); a special scheme also needs a non-empty host after the slashes.
   Everything else is "relative URL without a base" / "empty host". *)
SchemeLen(s) ==
    IF \E i \in 1..Len(s) : CharAt(s, i) \notin SchemeChars
    THEN (CHOOSE i \in 1..Len(s) :
              /\ CharAt(s, i) \notin SchemeChars
              /\ \A j \in 1..(i-1) : CharAt(s, j) \in SchemeChars) - 1
    ELSE Len(s)

HostStart(s, from) ==
    IF \E i \in from..Len(s) : CharAt(s, i) \notin {"/", "\\"}
    THEN CHOOSE i \in from..Len(s) :
              /\ CharAt(s, i) \notin {"/", "\\"}
              /\ \A j \in from..(i-1) : CharAt(s, j) \in {"/", "\\"}
    ELSE Len(s) + 1

UrlParseOk(s) ==
    LET n == SchemeLen(s) IN
    /\ n >= 1
    /\ CharAt(s, 1) \in Lower \cup Upper
    /\ n < Len(s)
    /\ CharAt(s, n + 1) = ":"
    /\ SubSeq(s, 1, n) \in SpecialSchemes =>
           LET h == HostStart(s, n + 2) IN
           /\ h <= Len(s)
           /\ CharAt(s, h) \notin {"?", "#", ":"}

(* ------------------------------------------------------ challenge parser *)
(* A header value, after the regex sweep of lines 55-69: the method of the
   first capture ("" when the first capture has none) and the key="value"
   captures in header order; utf8 = FALSE is a value String::from_utf8 rejects *)
Attr(k, v) == [key |-> k, value |-> v]

Header(m, as) == [present |-> TRUE, utf8 |-> TRUE, method |-> m, attrs |-> as]

NoHeader == [present |-> FALSE, utf8 |-> TRUE, method |-> "", attrs |-> <<>>]

BadUtf8Header == [present |-> TRUE, utf8 |-> FALSE, method |-> "", attrs |-> <<>>]

Variants == {"Bearer", "Basic"}

(* the fields of the struct behind each variant (lines 117-121, 152-154) *)
FieldsOf(variant) ==
    IF variant = "Bearer" THEN {"realm", "service", "scope"} ELSE {"realm"}

HasKey(attrs, k) == \E i \in 1..Len(attrs) : attrs[i].key = k

(* Lines 80-96 write each captured value between quotes into a JSON text as
   it is, and serde_json reads it back as a JSON string: a backslash starts an
   escape, a control character is an error. *)
HexDigits == Digit \cup {"a", "b", "c", "d", "e", "f", "A", "B", "C", "D", "E", "F"}

ControlChars == {"\t", "\n", "\f", "\r"}

JsonEscapes == {"\\", "/", "b", "f", "n", "r", "t"}

(* the character a one-letter escape stands for (backspace has no TLA+
   spelling and is written <BS>) *)
EscapedChar(c) ==
    CASE c = "\\" -> "\\"
      [] c = "/" -> "/"
      [] c = "b" -> "<BS>"
      [] c = "f" -> "\f"
      [] c = "n" -> "\n"
      [] c = "r" -> "\r"
      [] c = "t" -> "\t"

JsonErr == [ok |-> FALSE, value |-> ""]

RECURSIVE json_string_from(_, _)
(* the JSON string value of the characters of s from position i on *)
json_string_from(s, i) ==
    IF i > Len(s) THEN [ok |-> TRUE, value |-> ""]
    ELSE IF CharAt(s, i) \in ControlChars THEN JsonErr
    ELSE IF CharAt(s, i) # "\\"
         THEN LET r == json_string_from(s, i + 1)
              IN IF r.ok THEN [ok |-> TRUE, value |-> CharAt(s, i) \o r.value] ELSE r
    ELSE IF i = Len(s) THEN JsonErr
    ELSE IF CharAt(s, i + 1) \in JsonEscapes
         THEN LET r == json_string_from(s, i + 2)
              IN IF r.ok
                 THEN [ok |-> TRUE, value |-> EscapedChar(CharAt(s, i + 1)) \o r.value]
                 ELSE r
    ELSE IF /\ CharAt(s, i + 1) = "u"
            /\ i + 5 <= Len(s)
            /\ \A j \in (i + 2)..(i + 5) : CharAt(s, j) \in HexDigits
         THEN LET r == json_string_from(s, i + 6)
              IN IF r.ok
                 THEN [ok |-> TRUE,
                       value |-> "<U+" \o SubSeq(s, i + 2, i + 5) \o ">" \o r.value]
                 ELSE r
    ELSE JsonErr

json_string_raw(s) == [ok |-> TRUE, value |-> s]

json_string(s) == json_string_from(s, 1)

(* Option<String> of a field: the value of its (only) occurrence *)
Field(attrs, k) ==
    IF HasKey(attrs, k)
    THEN Some(json_string(attrs[CHOOSE i \in 1..Len(attrs) :
                                   /\ attrs[i].key = k
                                   /\ \A j \in 1..(i-1) : attrs[j].key # k].value).value)
    ELSE None

(* the value of some pair, field or ignored, is not a JSON string *)
BadJsonString(attrs) == \E i \in 1..Len(attrs) : ~json_string(attrs[i].value).ok

DuplicateField_first_wins(attrs, variant) == FALSE

(* the derived Deserialize rejects a struct field that occurs twice *)
DuplicateField(attrs, variant) ==
    \E i, j \in 1..Len(attrs) :
        /\ i < j
        /\ attrs[i].key = attrs[j].key
        /\ attrs[i].key \in FieldsOf(variant)

ParseErr(msg) == [ok |-> FALSE, err |-> msg]

(* the pairs are read in order: the error is that of the first bad pair *)
FirstBadPair(attrs, variant) ==
    LET bad(i) == \/ ~json_string(attrs[i].value).ok
                  \/ DuplicateField(SubSeq(attrs, 1, i), variant)
        first == CHOOSE i \in 1..Len(attrs) :
                     bad(i) /\ \A j \in 1..(i-1) : ~bad(j)
    IN IF DuplicateField(SubSeq(attrs, 1, first), variant)
       THEN ParseErr("duplicate field")
       ELSE ParseErr("invalid JSON string")

Bearer(realm, service, scope) ==
    [variant |-> "Bearer", realm |-> realm, service |-> service, scope |-> scope]

Basic(realm) == [variant |-> "Basic", realm |-> realm]

from_www_authentication_header_default_realm(h) ==
    IF ~h.utf8 THEN ParseErr("invalid utf-8")
    ELSE IF Len(h.attrs) = 0 THEN ParseErr("regex didn't match")
    ELSE IF h.method = "" THEN ParseErr("method not found")
    ELSE IF h.method \notin Variants THEN ParseErr("unknown variant")
    ELSE IF DuplicateField(h.attrs, h.method) \/ BadJsonString(h.attrs)
         THEN FirstBadPair(h.attrs, h.method)
    ELSE LET realm == IF HasKey(h.attrs, "realm")
                      THEN Unwrap(Field(h.attrs, "realm")) ELSE ""
         IN [ok |-> TRUE,
             content |->
                 IF h.method = "Bearer"
                 THEN Bearer(realm, Field(h.attrs, "service"), Field(h.attrs, "scope"))
                 ELSE Basic(realm)]

from_www_authentication_header(h) ==
    IF ~h.utf8 THEN ParseErr("invalid utf-8")
    ELSE IF Len(h.attrs) = 0 THEN ParseErr("regex didn't match")
    ELSE IF h.method = "" THEN ParseErr("method not found")
    ELSE IF h.method \notin Variants THEN ParseErr("unknown variant")
    ELSE IF DuplicateField(h.attrs, h.method) \/ BadJsonString(h.attrs)
         THEN FirstBadPair(h.attrs, h.method)
    ELSE IF ~HasKey(h.attrs, "realm") THEN ParseErr("missing field realm")
    ELSE [ok |-> TRUE,
          content |->
              IF h.method = "Bearer"
              THEN Bearer(Unwrap(Field(h.attrs, "realm")),
                          Field(h.attrs, "service"), Field(h.attrs, "scope"))
              ELSE Basic(Unwrap(Field(h.attrs, "realm")))]

(* --------------------------------------------------- token-endpoint URL *)
RECURSIVE ScopeFold_separator_from_second(_, _, _)
ScopeFold_separator_from_second(acc, scopes, i) ==
    IF i >= Len(scopes) THEN acc
    ELSE LET separator == IF i > 0 THEN "&" ELSE ""
         IN ScopeFold_separator_from_second(acc \o separator \o "scope=" \o scopes[i + 1],
                                            scopes, i + 1)

RECURSIVE ScopeFold(_, _, _)
(* the fold of lines 131-144 from enumerate() index i (0-based) on *)
ScopeFold(acc, scopes, i) ==
    IF i >= Len(scopes) THEN acc
    ELSE LET separator == IF i > 1 THEN "&" ELSE ""
         IN ScopeFold(acc \o separator \o "scope=" \o scopes[i + 1], scopes, i + 1)

auth_ep(content, scopes) ==
    LET service == IF IsSome(content.service)
                   THEN "?service=" \o Unwrap(content.service)
                   ELSE ""
        scope == ScopeFold(IF Len(scopes) = 0 THEN ""
                           ELSE IF service = "" THEN "?"
                           ELSE "&",
                           scopes, 0)
    IN content.realm \o service \o scope

(* -------------------------------------------------------- bearer tokens *)
(* a token is its sequence of code points *)
Unauthenticated == <<117, 110, 97, 117, 116, 104, 101, 110, 116, 105, 99, 97, 116, 101, 100>>

Star == 42

Utf8Len(c) == IF c < 128 THEN 1 ELSE IF c < 2048 THEN 2 ELSE IF c < 65536 THEN 3 ELSE 4

RECURSIVE ByteOffset(_, _)
(* byte offset of the end of the first k characters *)
ByteOffset(t, k) == IF k = 0 THEN 0 ELSE ByteOffset(t, k - 1) + Utf8Len(t[k])

is_char_boundary(t, b) == \E k \in 0..Len(t) : ByteOffset(t, k) = b

CharsBefore(t, b) == CHOOSE k \in 0..Len(t) : ByteOffset(t, k) = b

Min(a, b) == IF a < b THEN a ELSE b

Max(a, b) == IF a > b THEN a ELSE b

(* lines 248-253: the range is counted in characters and applied to bytes;
   replace_range panics when an end of the range is not a char boundary *)
mask_start(t) == Min(1, Len(t) - 1)

mask_end(t) == Max(Len(t) - 1, 1)

MaskPanics(t) ==
    \/ Len(t) = 0
    \/ ~is_char_boundary(t, mask_start(t))
    \/ ~is_char_boundary(t, mask_end(t))

masked_token(t) ==
    SubSeq(t, 1, CharsBefore(t, mask_start(t)))
        \o [i \in 1..(mask_end(t) - mask_start(t)) |-> Star]
        \o SubSeq(t, CharsBefore(t, mask_end(t)) + 1, Len(t))

(* ------------------------------------------------------------ credentials *)
(* Auth (lines 8-39); BearerAuth is the token response body, of which only
   the token takes part in the flow *)
BasicAuth(user, password) == [kind |-> "Basic", user |-> user, password |-> password]

BearerAuth(token) == [kind |-> "Bearer", token |-> token]

(* what Auth::add_auth_headers puts on a request *)
add_auth_headers(a) ==
    IF a.kind = "Bearer" THEN [scheme |-> "Bearer", token |-> a.token]
    ELSE [scheme |-> "Basic", user |-> a.user, password |-> a.password]

(* Client::build_reqwest: a GET of url carrying the headers of the client's
   auth, if it has one *)
build_reqwest(client_auth, url) ==
    [url |-> url,
     authorization |-> IF IsSome(client_auth)
                       THEN Some(add_auth_headers(Unwrap(client_auth)))
                       ELSE None]

(* ------------------------------------------------------------ input sets *)
RECURSIVE SeqsUpTo(_, _)
SeqsUpTo(S, n) ==
    IF n = 0 THEN {<<>>}
    ELSE LET shorter == SeqsUpTo(S, n - 1)
         IN shorter \cup {Append(q, x) : q \in shorter, x \in S}

StoredCredentials == {None, Some(<<"user", "secret">>)}

BaseUrls == {"https://registry.io", "registry.io"}

ScopeLists == {<<>>, <<"repo:a:pull", "repo:b:pull", "repo:c:pull">>}

AttrPairs ==
    {Attr("realm", "https://auth.io/token"), Attr("realm", "Registry"),
     Attr("service", "registry.io")}

Methods == {"Bearer", "Basic", "Digest", ""}

Headers ==
    {NoHeader, BadUtf8Header}
        \cup {Header(m, as) : m \in Methods, as \in SeqsUpTo(AttrPairs, MaxAttrs)}

TokenChars == {97, 233}

Tokens == SeqsUpTo(TokenChars, MaxTokLen) \cup {Unauthenticated}

(* a token response body: not the JSON of a BearerAuth, or one with a token *)
BadJson == [json |-> FALSE, token |-> <<>>]

Bodies == {BadJson} \cup [json : {TRUE}, token : Tokens]

(* ----------------------------------------------------------------- state *)
VARIABLES
    credentials,    \* Client.credentials: Option<(String, String)>
    base_url,       \* Client.base_url
    auth,           \* Client.auth: Option<Auth>
    pc,             \* idle | probe | token | verify | is_auth | failed
    scopes,         \* the scopes argument of the running authenticate
    sent,           \* the requests sent by the running call, in order
    seen,           \* the responses the running call has read
    content,        \* Option of the parsed challenge of the running call
    masked,         \* Option of masked_token, once the masking step has run
    result,         \* the value the last call returned
    srvStatus,      \* the servers: request -> reply, fixed once given
    srvHeader,      \* request -> WWW-Authenticate header of the response
    srvBody,        \* request -> body of the response
    calls,          \* the last two authenticate calls: scopes and outcome
    ncalls,         \* the number of authenticate calls made on the client
    changed,        \* the servers changed since the last authenticate began
    peers,          \* two independent clients, each with the frame of its call
    input,          \* the argument a function is applied to, taken alone
    output          \* Option of the value the function returned for input

vars == <<credentials, base_url, auth, pc, scopes, sent, seen, content, masked,
          result, srvStatus, srvHeader, srvBody, calls, ncalls, changed,
          peers, input, output>>

client == <<credentials, base_url>>

servers == <<srvStatus, srvHeader, srvBody>>

(* what the calls on the one client leave alone *)
apart == <<peers, input, output>>

Empty == [x \in {} |-> x]

NoResult == [op |-> "none", tag |-> "None", val |-> FALSE, msg |-> "", status |-> 0]

Ok(op, v) == [op |-> op, tag |-> "Ok", val |-> v, msg |-> "", status |-> 0]

Err(op, msg, status) == [op |-> op, tag |-> "Err", val |-> FALSE, msg |-> msg, status |-> status]

Panic(op) == [op |-> op, tag |-> "Panic", val |-> FALSE, msg |-> "", status |-> 0]

NothingSeen == [probe |-> None, token |-> None, verify |-> None]

Init ==
    /\ credentials \in StoredCredentials
    /\ base_url \in BaseUrls
    /\ auth = None
    /\ pc = "idle"
    /\ scopes = <<>>
    /\ sent = <<>>
    /\ seen = NothingSeen
    /\ content = None
    /\ masked = None
    /\ result = NoResult
    /\ srvStatus = Empty
    /\ srvHeader = Empty
    /\ srvBody = Empty
    /\ calls = <<>>
    /\ ncalls = 0
    /\ changed = FALSE
    /\ peers = <<>>
    /\ input = None
    /\ output = None

(* the one client and the servers, untouched *)
onecall == <<credentials, base_url, auth, pc, scopes, sent, seen, content, masked,
             result, srvStatus, srvHeader, srvBody, calls, ncalls, changed>>

AtRest ==
    /\ credentials = None
    /\ base_url = "registry.io"
    /\ auth = None
    /\ pc = "idle"
    /\ scopes = <<>>
    /\ sent = <<>>
    /\ seen = NothingSeen
    /\ content = None
    /\ masked = None
    /\ result = NoResult
    /\ srvStatus = Empty
    /\ srvHeader = Empty
    /\ srvBody = Empty
    /\ calls = <<>>
    /\ ncalls = 0
    /\ changed = FALSE

(* a server answers a request it has answered before the same way *)
Answers(memo, req, v) == req \in DOMAIN memo => memo[req] = v

Remember(memo, req, v) == (req :> v) @@ memo

Request(step, req) == [step |-> step, url |-> req.url, authorization |-> req.authorization]

Key(r) == [url |-> r.url, authorization |-> r.authorization]

LastKey == Key(sent[Len(sent)])

Variant(a) == IF IsSome(a) THEN Unwrap(a).kind ELSE "None"

(* the outcome of the running authenticate, entered in calls *)
Finish(res, a) ==
    [calls EXCEPT ![Len(calls)].done = TRUE, ![Len(calls)].ok = (res.tag = "Ok"),
                  ![Len(calls)].variant = Variant(a)]

(* ------------------------------------------------- pieces of the handlers *)
(* the outcome of a step of authenticate: the client's auth, where the call
   continues, what it returns, the request it sends next, and its locals *)
Step(a, where, res, req, c, m) ==
    [auth |-> a, pc |-> where, result |-> res, send |-> req, content |-> c, masked |-> m]

Bail(a, msg, status, c, m) ==
    Step(a, "failed", Err("authenticate", msg, status), None, c, m)

has_credentials_unchecked(c) == TRUE

(* line 191: the stored pair, or bail *)
has_credentials(c) == IsSome(c)

keep_auth(a) == a

(* line 197: self.auth = None *)
discard_auth(a) == None

basic_of_user_only(c) == Some(BasicAuth(Unwrap(c)[1], None))

(* lines 202-205 and 222-225: Basic auth of the stored pair *)
basic_of(c) == Some(BasicAuth(Unwrap(c)[1], Some(Unwrap(c)[2])))

(* lines 159-167 and 275-286: the probe URL *)
probe_ep(base) == base \o "/v2/"

is_auth_status_success_only(reply) ==
    IF ~reply.ok THEN Err("is_auth", "send error", 0)
    ELSE Ok("is_auth", reply.status = StatusOK)

(* lines 295-299 *)
is_auth_status(reply) ==
    IF ~reply.ok THEN Err("is_auth", "send error", 0)
    ELSE IF reply.status = StatusOK THEN Ok("is_auth", TRUE)
    ELSE IF reply.status = StatusUnauthorized THEN Ok("is_auth", FALSE)
    ELSE Err("is_auth", "is_auth: wrong HTTP status", reply.status)

token_status_not_unauthorized(status) == status # StatusUnauthorized

(* lines 234-237 *)
token_status_ok(status) == status = StatusOK

check_token_no_empty(token) ==
    IF token = Unauthenticated THEN "token is unauthenticated" ELSE ""

check_token_no_sentinel(token) ==
    IF token = <<>> THEN "received an empty token" ELSE ""

(* lines 241-245: "" when the token passes *)
check_token(token) ==
    IF token = Unauthenticated THEN "token is unauthenticated"
    ELSE IF token = <<>> THEN "received an empty token"
    ELSE ""

get_www_authentication_header_lenient(reply, header) ==
    IF ~reply.ok THEN [ok |-> FALSE, err |-> "send error"]
    ELSE [ok |-> TRUE, value |-> header]

get_www_authentication_header_checks_status(reply, header) ==
    IF ~reply.ok THEN [ok |-> FALSE, err |-> "send error"]
    ELSE IF reply.status = StatusOK THEN [ok |-> FALSE, err |-> "no challenge"]
    ELSE IF ~header.present THEN [ok |-> FALSE, err |-> "missing header"]
    ELSE [ok |-> TRUE, value |-> header]

(* lines 169-185: the header of the probe's response *)
get_www_authentication_header(reply, header) ==
    IF ~reply.ok THEN [ok |-> FALSE, err |-> "send error"]
    ELSE IF ~header.present THEN [ok |-> FALSE, err |-> "missing header"]
    ELSE [ok |-> TRUE, value |-> header]

(* In the pieces below, me is the client a call runs on together with the
   locals of the call: credentials, base_url, auth, scopes, content, masked *)

token_request_as_client(me, ep) == build_reqwest(me.auth, ep)

(* lines 218-229: the token request, built by a copy of the client whose auth
   is the Basic auth of the stored pair *)
token_request(me, ep) == build_reqwest(basic_of(me.credentials), ep)

(* line 261, first half: is_auth() called with the credential just adopted *)
begin_verify(me, a, c, m) ==
    IF UrlParseOk(probe_ep(me.base_url))
    THEN Step(a, "verify", NoResult,
              Some(Request("verify", build_reqwest(a, probe_ep(me.base_url)))), c, m)
    ELSE Bail(a, "failed to parse url", 0, c, m)

(* lines 191-199, up to the await of the probe *)
authenticate_begin(me) ==
    IF ~has_credentials(me.credentials)
    THEN Bail(me.auth, "cannot authenticate without credentials", 0, None, None)
    ELSE LET a == discard_auth(me.auth) IN
         IF UrlParseOk(probe_ep(me.base_url))
         THEN Step(a, "probe", NoResult,
                   Some(Request("probe", build_reqwest(a, probe_ep(me.base_url)))),
                   None, None)
         ELSE Bail(a, "failed to parse url", 0, None, None)

(* lines 173-185 and 200-231: from the probe's response to the next await *)
after_probe(me, reply, header) ==
    LET authentication_header == get_www_authentication_header(reply, header)
        parsed == from_www_authentication_header(authentication_header.value)
    IN
    IF ~authentication_header.ok
    THEN Bail(me.auth, authentication_header.err, 0, None, None)
    ELSE IF ~parsed.ok THEN Bail(me.auth, parsed.err, 0, None, None)
    ELSE IF parsed.content.variant = "Basic"
         THEN begin_verify(me, basic_of(me.credentials), Some(parsed.content), None)
    ELSE LET ep == auth_ep(parsed.content, me.scopes) IN
         IF ~UrlParseOk(ep)
         THEN Bail(me.auth, "failed to parse url", 0, Some(parsed.content), None)
         ELSE IF ~IsSome(me.credentials)
              THEN Bail(me.auth, "cannot authenticate without credentials", 0,
                        Some(parsed.content), None)
         ELSE Step(me.auth, "token", NoResult,
                   Some(Request("token", token_request(me, ep))),
                   Some(parsed.content), None)

(* lines 231-257: from the token endpoint's response to the next await *)
after_token(me, reply, body) ==
    IF ~reply.ok THEN Bail(me.auth, "send error", 0, me.content, None)
    ELSE IF ~token_status_ok(reply.status)
         THEN Bail(me.auth, "authenticate: wrong HTTP status", reply.status,
                   me.content, None)
    ELSE IF ~body.json
         THEN Bail(me.auth, "error decoding response body", 0, me.content, None)
    ELSE IF check_token(body.token) # ""
         THEN Bail(me.auth, check_token(body.token), 0, me.content, None)
    ELSE IF MaskPanics(body.token)
         THEN Step(me.auth, "failed", Panic("authenticate"), None, me.content, None)
    ELSE begin_verify(me, Some(BearerAuth(body.token)), me.content,
                      Some(masked_token(body.token)))

after_verify_retry(me, reply) ==
    LET r == is_auth_status(reply) IN
    IF r.tag = "Err" THEN Bail(me.auth, r.msg, r.status, me.content, me.masked)
    ELSE IF ~r.val THEN begin_verify(me, me.auth, me.content, me.masked)
    ELSE Step(me.auth, "idle", Ok("authenticate", TRUE), None, me.content, me.masked)

(* lines 261-268: from the verification probe's response to the return *)
after_verify(me, reply) ==
    LET r == is_auth_status(reply) IN
    IF r.tag = "Err" THEN Bail(me.auth, r.msg, r.status, me.content, me.masked)
    ELSE IF ~r.val THEN Bail(None, "login failed", 0, me.content, me.masked)
    ELSE Step(me.auth, "idle", Ok("authenticate", TRUE), None, me.content, me.masked)

(* the one client of Spec and the frame of its running call *)
Self ==
    [credentials |-> credentials, base_url |-> base_url, auth |-> auth,
     scopes |-> scopes, content |-> content, masked |-> masked]

(* ---------------------------------------------------------------- actions *)
(* the effect of a step of authenticate on the client and the call's frame *)
Apply(st) ==
    /\ auth' = st.auth
    /\ pc' = st.pc
    /\ result' = st.result
    /\ content' = st.content
    /\ masked' = st.masked
    /\ sent' = IF IsSome(st.send) THEN Append(sent, Unwrap(st.send)) ELSE sent
    /\ calls' = IF st.pc \in {"idle", "failed"} THEN Finish(st.result, st.auth) ELSE calls

NewCall(sc) ==
    [scopes |-> sc, same |-> ~changed, before |-> Variant(auth),
     done |-> FALSE, ok |-> FALSE, variant |-> "None"]

(* client.authenticate(scopes) is called: lines 190-199 up to the first await *)
AuthenticateStart(sc) ==
    /\ pc = "idle"
    /\ ncalls < MaxCalls
    /\ ncalls' = ncalls + 1
    /\ LET st == authenticate_begin(Self) IN
       /\ auth' = st.auth
       /\ pc' = st.pc
       /\ result' = st.result
       /\ content' = None
       /\ masked' = None
       /\ sent' = IF IsSome(st.send) THEN <<Unwrap(st.send)>> ELSE <<>>
       /\ calls' = LET cs == Append(IF Len(calls) = 2 THEN Tail(calls) ELSE calls,
                                     NewCall(sc)) IN
                   IF st.pc = "failed"
                   THEN [cs EXCEPT ![Len(cs)].done = TRUE,
                                   ![Len(cs)].variant = Variant(st.auth)]
                   ELSE cs
    /\ scopes' = sc
    /\ seen' = NothingSeen
    /\ changed' = FALSE
    /\ UNCHANGED <<apart, client, servers>>

(* the probe's send() completes *)
ProbeResponse ==
    /\ pc = "probe"
    /\ \E reply \in SendReplies, header \in Headers :
        /\ Answers(srvStatus, LastKey, reply)
        /\ IF reply.ok THEN Answers(srvHeader, LastKey, header) ELSE header = NoHeader
        /\ srvStatus' = Remember(srvStatus, LastKey, reply)
        /\ srvHeader' = IF reply.ok THEN Remember(srvHeader, LastKey, header) ELSE srvHeader
        /\ seen' = [seen EXCEPT !.probe = Some([reply |-> reply, header |-> header])]
        /\ Apply(after_probe(Self, reply, header))
    /\ UNCHANGED <<apart, client, scopes, srvBody, ncalls, changed>>

(* the token endpoint's send() completes and, on 200, the body is read *)
TokenResponse ==
    /\ pc = "token"
    /\ \E reply \in SendReplies, body \in Bodies :
        LET read == reply.ok /\ token_status_ok(reply.status) IN
        /\ Answers(srvStatus, LastKey, reply)
        /\ IF read THEN Answers(srvBody, LastKey, body) ELSE body = BadJson
        /\ srvStatus' = Remember(srvStatus, LastKey, reply)
        /\ srvBody' = IF read THEN Remember(srvBody, LastKey, body) ELSE srvBody
        /\ seen' = [seen EXCEPT !.token =
                        Some([reply |-> reply, body |-> IF read THEN Some(body) ELSE None])]
        /\ Apply(after_token(Self, reply, body))
    /\ UNCHANGED <<apart, client, scopes, srvHeader, ncalls, changed>>

(* the verification probe's send() completes *)
VerifyResponse ==
    /\ pc = "verify"
    /\ \E reply \in SendReplies :
        /\ Answers(srvStatus, LastKey, reply)
        /\ srvStatus' = Remember(srvStatus, LastKey, reply)
        /\ seen' = [seen EXCEPT !.verify = Some(reply)]
        /\ Apply(after_verify(Self, reply))
    /\ UNCHANGED <<apart, client, scopes, srvHeader, srvBody, ncalls, changed>>

(* client.is_auth() is called: lines 274-291 up to the await *)
IsAuthStart ==
    /\ pc = "idle"
    /\ IF UrlParseOk(probe_ep(base_url))
       THEN /\ pc' = "is_auth"
            /\ result' = NoResult
            /\ sent' = <<Request("is_auth", build_reqwest(auth, probe_ep(base_url)))>>
       ELSE /\ pc' = "idle"
            /\ result' = Err("is_auth", "failed to parse url", 0)
            /\ sent' = <<>>
    /\ seen' = NothingSeen
    /\ content' = None
    /\ masked' = None
    /\ UNCHANGED <<apart, client, auth, scopes, servers, calls, ncalls, changed>>

(* its send() completes: lines 291-299 *)
IsAuthResponse ==
    /\ pc = "is_auth"
    /\ \E reply \in SendReplies :
        /\ Answers(srvStatus, LastKey, reply)
        /\ srvStatus' = Remember(srvStatus, LastKey, reply)
        /\ seen' = [seen EXCEPT !.verify = Some(reply)]
        /\ result' = is_auth_status(reply)
    /\ pc' = "idle"
    /\ UNCHANGED <<apart, client, auth, scopes, sent, content, masked, srvHeader, srvBody,
                   calls, ncalls, changed>>

(* the registry and the token server change how they answer *)
ServerChange ==
    /\ pc = "idle"
    /\ srvStatus # Empty
    /\ srvStatus' = Empty
    /\ srvHeader' = Empty
    /\ srvBody' = Empty
    /\ changed' = TRUE
    /\ UNCHANGED <<apart, client, auth, pc, scopes, sent, seen, content, masked, result,
                   calls, ncalls>>

Next ==
    \/ \E sc \in ScopeLists : AuthenticateStart(sc)
    \/ ProbeResponse
    \/ TokenResponse
    \/ VerifyResponse
    \/ IsAuthStart
    \/ IsAuthResponse
    \/ ServerChange

Spec == Init /\ [][Next]_vars

(* ------------------------------------------------ auth_ep, taken alone *)
ScopeNames == {"repo:a:pull", "repo:b:push"}

Realms == {"https://auth.io/token", "Registry"}

AuthEpInputs ==
    [content : {Bearer(r, sv, None) : r \in Realms, sv \in {None, Some("registry.io")}},
     scopes : SeqsUpTo(ScopeNames, MaxScopes)]

InitAuthEp ==
    /\ AtRest
    /\ peers = <<>>
    /\ input \in {Some(x) : x \in AuthEpInputs}
    /\ output = None

ApplyAuthEp ==
    /\ IsSome(input)
    /\ output = None
    /\ output' = Some(auth_ep(Unwrap(input).content, Unwrap(input).scopes))
    /\ UNCHANGED <<onecall, peers, input>>

SpecAuthEp == InitAuthEp /\ [][ApplyAuthEp]_vars

(* ------------------------------------- the masking step, taken alone *)
MaskInputs == SeqsUpTo(TokenChars, MaxMaskLen) \ {<<>>}

InitMask ==
    /\ AtRest
    /\ peers = <<>>
    /\ input \in {Some(t) : t \in MaskInputs}
    /\ output = None

(* lines 248-253 on a token that passed the check of lines 241-245 *)
ApplyMask ==
    /\ IsSome(input)
    /\ output = None
    /\ output' = Some(IF MaskPanics(Unwrap(input))
                      THEN [panic |-> TRUE, value |-> <<>>]
                      ELSE [panic |-> FALSE, value |-> masked_token(Unwrap(input))])
    /\ UNCHANGED <<onecall, peers, input>>

SpecMask == InitMask /\ [][ApplyMask]_vars

(* ------------------------------------------- the parser, taken alone *)
(* key="value" pairs of a header; the regex of line 64 takes any value
   without a double quote, a backslash included *)
ParsePairs ==
    {Attr("realm", "Registry"), Attr("realm", "a\\nb"),
     Attr("service", "registry.io"), Attr("scope", "repo:a:pull"),
     Attr("foo", "bar"), Attr("foo", "a\\qb"), Attr("error", "a\\\\b")}

ParseInputs == {Header(m, as) : m \in Variants, as \in SeqsUpTo(ParsePairs, MaxPairs)}

InitParse ==
    /\ AtRest
    /\ peers = <<>>
    /\ input \in {Some(h) : h \in ParseInputs}
    /\ output = None

ApplyParse ==
    /\ IsSome(input)
    /\ output = None
    /\ output' = Some(from_www_authentication_header(Unwrap(input)))
    /\ UNCHANGED <<onecall, peers, input>>

SpecParse == InitParse /\ [][ApplyParse]_vars

(* --------------------------------- two clients, one call on each of them *)
Clients == {1, 2}

PeerHeaders ==
    {NoHeader, Header("Basic", <<Attr("realm", "Registry")>>),
     Header("Bearer", <<Attr("realm", "https://auth.io/token")>>)}

PeerBodies == {BadJson, [json |-> TRUE, token |-> <<97>>]}

NewPeer(c) ==
    [credentials |-> c, base_url |-> "https://registry.io", auth |-> None,
     scopes |-> <<"repo:a:pull">>, content |-> None, masked |-> None,
     pc |-> "idle", called |-> FALSE, result |-> NoResult, seen |-> NothingSeen]

slot_shared(c) == 1

(* line 190: authenticate(mut self, ..) owns the client it runs on, and
   self.auth of lines 197, 205, 257 and 262 is the auth of that client *)
slot(c) == c

(* the client of call c and the frame of the call *)
Me(c) ==
    [credentials |-> peers[c].credentials, base_url |-> peers[c].base_url,
     auth |-> peers[slot(c)].auth, scopes |-> peers[c].scopes,
     content |-> peers[c].content, masked |-> peers[c].masked]

(* the effect of a step of call c, having read the responses sn so far *)
PeerApply(c, st, sn) ==
    /\ peers' = LET q == [peers EXCEPT ![c].pc = st.pc, ![c].result = st.result,
                                        ![c].content = st.content,
                                        ![c].masked = st.masked,
                                        ![c].called = TRUE, ![c].seen = sn]
                IN [q EXCEPT ![slot(c)].auth = st.auth]
    /\ UNCHANGED <<onecall, input, output>>

InitTwo ==
    /\ AtRest
    /\ input = None
    /\ output = None
    /\ peers \in [Clients -> {NewPeer(c) : c \in StoredCredentials}]

PeerStart(c) ==
    /\ peers[c].pc = "idle"
    /\ ~peers[c].called
    /\ PeerApply(c, authenticate_begin(Me(c)), NothingSeen)

PeerProbe(c) ==
    /\ peers[c].pc = "probe"
    /\ \E reply \in SendReplies, header \in PeerHeaders :
        /\ ~reply.ok => header = NoHeader
        /\ PeerApply(c, after_probe(Me(c), reply, header),
                     [peers[c].seen EXCEPT
                          !.probe = Some([reply |-> reply, header |-> header])])

PeerToken(c) ==
    /\ peers[c].pc = "token"
    /\ \E reply \in SendReplies, body \in PeerBodies :
        /\ ~(reply.ok /\ token_status_ok(reply.status)) => body = BadJson
        /\ PeerApply(c, after_token(Me(c), reply, body),
                     [peers[c].seen EXCEPT
                          !.token = Some([reply |-> reply, body |-> body])])

PeerVerify(c) ==
    /\ peers[c].pc = "verify"
    /\ \E reply \in SendReplies :
        PeerApply(c, after_verify(Me(c), reply),
                  [peers[c].seen EXCEPT !.verify = Some(reply)])

NextTwo ==
    \E c \in Clients :
        \/ PeerStart(c)
        \/ PeerProbe(c)
        \/ PeerToken(c)
        \/ PeerVerify(c)

SpecTwo == InitTwo /\ [][NextTwo]_vars

(* ------------------------------------------------------------------ types *)
TypeOK ==
    /\ credentials \in StoredCredentials
    /\ base_url \in BaseUrls
    /\ pc \in {"idle", "probe", "token", "verify", "is_auth", "failed"}
    /\ Len(auth) <= 1
    /\ Len(calls) <= 2
    /\ ncalls \in 0..MaxCalls
    /\ result.tag \in {"None", "Ok", "Err", "Panic"}

(* ----------------------------------------------------------- properties *)
(* authenticate has returned and nothing was called on the client since *)
Returned == result.op = "authenticate"

Succeeded == Returned /\ result.tag = "Ok"

Failed == Returned /\ result.tag = "Err"

Issued(step) == \E i \in 1..Len(sent) : sent[i].step = step

StoredBasic == BasicAuth(Unwrap(credentials)[1], Some(Unwrap(credentials)[2]))

ChallengeIs(variant) == IsSome(content) /\ Unwrap(content).variant = variant

ProbeAnswered == IsSome(seen.probe) /\ Unwrap(seen.probe).reply.ok

TokenAnswered == IsSome(seen.token) /\ Unwrap(seen.token).reply.ok

VerifyAnswered == Returned /\ IsSome(seen.verify) /\ Unwrap(seen.verify).ok

TokenStatus == Unwrap(seen.token).reply.status

VerifyStatus == Unwrap(seen.verify).status

TokenRead == TokenAnswered /\ IsSome(Unwrap(seen.token).body)
                 /\ Unwrap(Unwrap(seen.token).body).json

ReadToken == Unwrap(Unwrap(seen.token).body).token

(* C1: whenever authenticate ends in an error, the client's credential slot
   is absent, whichever step failed. *)
C1_FailureLeavesCredentialCleared == Failed => auth = None

(* C2: once a credential was adopted, a 200 answer to the verification probe
   makes authenticate succeed, and every other status clears the credential
   and makes authenticate fail with the "login failed" error. *)
C2_VerifyOutcome ==
    VerifyAnswered =>
        IF VerifyStatus = StatusOK
        THEN Succeeded /\ IsSome(auth)
        ELSE /\ auth = None
             /\ result = Err("authenticate", "login failed", 0)

(* C3: with no stored username/password pair, authenticate fails at once with
   the no-credentials error, before any request is sent. *)
C3_NoCredentialsFailsBeforeAnyRequest ==
    (credentials = None /\ ncalls > 0) =>
        /\ pc = "failed"
        /\ result = Err("authenticate", "cannot authenticate without credentials", 0)
        /\ sent = <<>>
        /\ seen = NothingSeen

C3_Witness ==
    /\ credentials = None
    /\ ncalls = 1
    /\ calls[1].done
    /\ result.msg = "cannot authenticate without credentials"

(* C4: a non-200 probe response without a WWW-Authenticate header makes
   authenticate fail with the missing-header error, and neither a token
   request nor a verification probe follows. *)
C4_MissingChallenge ==
    (ProbeAnswered /\ Unwrap(seen.probe).reply.status # StatusOK
                   /\ ~Unwrap(seen.probe).header.present) =>
        /\ pc = "failed"
        /\ result = Err("authenticate", "missing header", 0)
        /\ ~Issued("token")
        /\ ~Issued("verify")
        /\ Len(sent) = 1
        /\ seen.token = None
        /\ seen.verify = None

C4_Witness ==
    /\ ProbeAnswered
    /\ Unwrap(seen.probe).reply.status = StatusUnauthorized
    /\ ~Unwrap(seen.probe).header.present
    /\ Failed

(* C5: after a Basic challenge, authenticate succeeds iff the verification
   probe, sent with the Basic credential of the stored pair, returns 200; on
   success the client holds that Basic credential, and no token request was
   sent. *)
C5_BasicChallenge ==
    (Returned /\ ChallengeIs("Basic")) =>
        /\ IsSome(credentials)
        /\ ~Issued("token")
        /\ Len(sent) = 2
        /\ sent[2].step = "verify"
        /\ sent[2].authorization = Some(add_auth_headers(StoredBasic))
        /\ Succeeded <=> (VerifyAnswered /\ VerifyStatus = StatusOK)
        /\ Succeeded => auth = Some(StoredBasic)

C5_Witness ==
    /\ Succeeded
    /\ ChallengeIs("Basic")
    /\ auth = Some(BasicAuth("user", Some("secret")))

(* C6: after a Bearer challenge, a 200 token response whose token is
   "unauthenticated" or empty makes authenticate fail with the invalid-token
   error; the credential stays unset, the masking step is not reached and no
   verification probe is sent. *)
C6_InvalidToken ==
    (TokenRead /\ ReadToken \in {Unauthenticated, <<>>}) =>
        /\ ChallengeIs("Bearer")
        /\ pc = "failed"
        /\ Failed
        /\ result.msg = IF ReadToken = <<>> THEN "received an empty token"
                        ELSE "token is unauthenticated"
        /\ auth = None
        /\ masked = None
        /\ ~Issued("verify")
        /\ seen.verify = None

C6_Witness ==
    /\ TokenRead
    /\ ReadToken = Unauthenticated
    /\ Failed
    /\ calls[Len(calls)].before # "None"

(* C7: after a Bearer challenge, a token response with a status other than
   200 makes authenticate fail with the token-endpoint error carrying that
   status; the body is not read, no credential is adopted and no verification
   probe is sent. *)
C7_TokenEndpointError ==
    (TokenAnswered /\ TokenStatus # StatusOK) =>
        /\ ChallengeIs("Bearer")
        /\ pc = "failed"
        /\ result = Err("authenticate", "authenticate: wrong HTTP status", TokenStatus)
        /\ Unwrap(seen.token).body = None
        /\ auth = None
        /\ masked = None
        /\ ~Issued("verify")
        /\ seen.verify = None

C7_Witness ==
    /\ TokenAnswered
    /\ TokenStatus = 500
    /\ result.status = 500

(* C8: is_auth sends one probe and returns true on 200, false on 401 and an
   error on every other status, with or without a credential on the client. *)
C8_IsAuth ==
    (result.op = "is_auth" /\ IsSome(seen.verify) /\ Unwrap(seen.verify).ok) =>
        /\ Len(sent) = 1
        /\ sent[1].step = "is_auth"
        /\ result = IF VerifyStatus = StatusOK THEN Ok("is_auth", TRUE)
                    ELSE IF VerifyStatus = StatusUnauthorized THEN Ok("is_auth", FALSE)
                    ELSE Err("is_auth", "is_auth: wrong HTTP status", VerifyStatus)

C8_Witness ==
    /\ result = Ok("is_auth", FALSE)
    /\ IsSome(auth)
    /\ VerifyStatus = StatusUnauthorized

(* C9: a second authenticate on the same client, with the same scopes and
   servers that answer as they did, ends as the first did, with the same
   credential variant: the credential of the first call is discarded before
   the probe. *)
C9_SecondCallSameVariant ==
    \A j \in {2} \cap DOMAIN calls :
        (calls[j].same /\ calls[j].scopes = calls[j-1].scopes) =>
            /\ calls[j].before = calls[j-1].variant
            /\ calls[j].done => (calls[j].ok /\ calls[j].variant = calls[j-1].variant)
            /\ (~calls[j].done /\ pc = "probe") => sent[1].authorization = None

C9_Witness ==
    /\ Len(calls) = 2
    /\ calls[2].same
    /\ calls[2].scopes = calls[1].scopes
    /\ calls[2].done
    /\ calls[2].variant = "Bearer"
    /\ calls[2].before = "Bearer"

(* C10: the credential slot never holds a Bearer credential whose token is
   empty or "unauthenticated"; when authenticate returns success the client
   holds a credential, Bearer exactly when the challenge was Bearer and Basic
   exactly when it was Basic. *)
C10_CredentialInvariant ==
    /\ (IsSome(auth) /\ Unwrap(auth).kind = "Bearer") =>
           Unwrap(auth).token \notin {<<>>, Unauthenticated}
    /\ Succeeded =>
           /\ IsSome(auth)
           /\ IsSome(content)
           /\ Unwrap(auth).kind = Unwrap(content).variant

C10_Witness ==
    /\ Succeeded
    /\ ChallengeIs("Bearer")
    /\ Unwrap(auth).kind = "Bearer"
    /\ Len(Unwrap(auth).token) = MaxTokLen

StepsSent == [i \in 1..Len(sent) |-> sent[i].step]

AnswersRead ==
    (IF IsSome(seen.probe) THEN 1 ELSE 0) + (IF IsSome(seen.token) THEN 1 ELSE 0)
        + (IF IsSome(seen.verify) THEN 1 ELSE 0)

(* C11: within one authenticate the requests go out in the order probe, then
   (Bearer challenge only) token exchange, then verification probe, each at
   most once; the challenge is parsed after the probe and before any token
   exchange; once a step has failed no further request is sent. *)
C11_RequestOrder ==
    /\ StepsSent \in {<<>>, <<"probe">>, <<"probe", "verify">>, <<"probe", "token">>,
                      <<"probe", "token", "verify">>, <<"is_auth">>}
    /\ IsSome(content) => IsSome(seen.probe)
    /\ Issued("token") => ChallengeIs("Bearer")
    /\ StepsSent = <<"probe", "verify">> => ChallengeIs("Basic")
    /\ Issued("verify") => IsSome(content)
    /\ pc \in {"probe", "token", "verify", "is_auth"} => Len(sent) = AnswersRead + 1
    /\ pc \in {"idle", "failed"} => Len(sent) = AnswersRead
    /\ Failed => pc = "failed"

C11_Witness ==
    /\ Failed
    /\ StepsSent = <<"probe", "token", "verify">>
    /\ result.msg = "login failed"

(* the credential adopted by the running call *)
Adopted == IF ChallengeIs("Basic") THEN StoredBasic ELSE BearerAuth(ReadToken)

(* C12: the initial probe carries no credential, even when the client held
   one from an earlier authentication; the token request carries Basic auth
   of the stored pair; the verification probe carries the credential adopted
   in this call. *)
C12_RequestCredentials ==
    \A i \in 1..Len(sent) :
        /\ sent[i].step = "probe" => sent[i].authorization = None
        /\ sent[i].step = "token" =>
               sent[i].authorization =
                   Some([scheme |-> "Basic", user |-> Unwrap(credentials)[1],
                         password |-> Some(Unwrap(credentials)[2])])
        /\ sent[i].step = "verify" =>
               sent[i].authorization = Some(add_auth_headers(Adopted))

C12_Witness ==
    /\ Len(calls) > 0
    /\ calls[Len(calls)].before = "Basic"
    /\ ChallengeIs("Bearer")
    /\ StepsSent = <<"probe", "token", "verify">>
    /\ sent[3].authorization = Some([scheme |-> "Bearer", token |-> ReadToken])

(* C16: a header with no recognizable scheme token, or with scheme Bearer or
   Basic and no realm key, is a parse error and never a challenge; inside
   authenticate the call then fails and no token request is sent. *)
C16_UnparsableChallenge ==
    (ProbeAnswered /\ Unwrap(seen.probe).header.present
                   /\ (\/ Unwrap(seen.probe).header.method \notin Variants
                       \/ ~HasKey(Unwrap(seen.probe).header.attrs, "realm"))) =>
        /\ ~from_www_authentication_header(Unwrap(seen.probe).header).ok
        /\ Failed
        /\ result.msg = from_www_authentication_header(Unwrap(seen.probe).header).err
        /\ content = None
        /\ auth = None
        /\ ~Issued("token")
        /\ ~Issued("verify")

C16_Witness ==
    /\ ProbeAnswered
    /\ Unwrap(seen.probe).header.method = "Bearer"
    /\ Unwrap(seen.probe).header.attrs = <<Attr("service", "registry.io")>>
    /\ Failed
    /\ result.msg = "missing field realm"

(* C20: the probing step decides on the presence of the WWW-Authenticate
   header alone, never on the status: a 200 without the header still fails
   with the missing-header error, and any status with the header goes on to
   challenge parsing. *)
C20_ProbeIgnoresStatus ==
    ProbeAnswered =>
        LET p == Unwrap(seen.probe)
            parsed == from_www_authentication_header(p.header)
        IN IF ~p.header.present
           THEN /\ result = Err("authenticate", "missing header", 0)
                /\ Len(sent) = 1
           ELSE IF parsed.ok THEN content = Some(parsed.content)
           ELSE result = Err("authenticate", parsed.err, 0)

C20_Witness ==
    /\ ProbeAnswered
    /\ Unwrap(seen.probe).reply.status = StatusOK
    /\ ~Unwrap(seen.probe).header.present
    /\ result = Err("authenticate", "missing header", 0)

(* ---- C13 ----
   The URL auth_ep builds for realm R, optional service S and scopes s1..sk
   is R, then "?service=S" if the service is present, then nothing when
   k = 0, otherwise "?" (no service) or "&" (service) and "scope=s1"; the
   second scope follows as "scope=s2" with no separator and every later one
   as "&scope=si". *)
RECURSIVE LaterScopes(_, _)
LaterScopes(sc, i) ==
    IF i > Len(sc) THEN "" ELSE "&scope=" \o sc[i] \o LaterScopes(sc, i + 1)

ExpectedEp(R, S, sc) ==
    R \o (IF IsSome(S) THEN "?service=" \o Unwrap(S) ELSE "")
      \o (IF Len(sc) = 0 THEN ""
          ELSE (IF IsSome(S) THEN "&" ELSE "?") \o "scope=" \o sc[1])
      \o (IF Len(sc) >= 2 THEN "scope=" \o sc[2] ELSE "")
      \o LaterScopes(sc, 3)

C13_AuthEp ==
    IsSome(output) =>
        Unwrap(output) = ExpectedEp(Unwrap(input).content.realm,
                                    Unwrap(input).content.service,
                                    Unwrap(input).scopes)

C13_Witness ==
    /\ IsSome(output)
    /\ IsSome(Unwrap(input).content.service)
    /\ Len(Unwrap(input).scopes) = 3
    /\ Unwrap(output) =
           "Registry?service=registry.io&scope=repo:a:pullscope=repo:b:push&scope=repo:a:pull"

(* ---- C14 ----
   Masking a non-empty token of n characters does not panic, replaces the
   characters of [min(1, n-1), max(n-1, 1)) with '*', and yields a string of
   n characters whose first and last character are those of the token. *)
C14_Masking ==
    IsSome(output) =>
        LET t == Unwrap(input)
            n == Len(t)
            r == Unwrap(output)
        IN /\ ~r.panic
           /\ Len(r.value) = n
           /\ r.value[1] = t[1]
           /\ r.value[n] = t[n]
           /\ \A i \in 2..(n - 1) : r.value[i] = Star

(* a one-character token is replaced whole *)
C14_OneCharFullyMasked ==
    /\ input = Some(<<97>>)
    /\ output = Some([panic |-> FALSE, value |-> <<Star>>])

(* a character count used as a byte index: replace_range panics *)
C14_MultiBytePanics ==
    /\ input = Some(<<233>>)
    /\ IsSome(output)
    /\ Unwrap(output).panic

(* or cuts whole characters out and changes the length *)
C14_LengthChanged ==
    /\ input = Some(<<97, 233, 97, 97>>)
    /\ output = Some([panic |-> FALSE, value |-> <<97, Star, Star, 97, 97>>])

(* ---- C15 ----
   Parsing a header of a scheme token and key="value" pairs gives
   Bearer{realm, service?, scope?} for Bearer and Basic{realm} for Basic,
   each field holding the value of its key and an absent optional key
   giving None, whatever the order of the pairs. *)
Keys(attrs) == {attrs[i].key : i \in 1..Len(attrs)}

Occurrences(attrs, k) == {i \in 1..Len(attrs) : attrs[i].key = k}

(* the value written in the header for k, as an Option *)
ValueOf(attrs, k) ==
    IF Occurrences(attrs, k) = {} THEN None
    ELSE Some(attrs[CHOOSE i \in Occurrences(attrs, k) :
                        \A j \in Occurrences(attrs, k) : i <= j].value)

Written(h) ==
    IF h.method = "Bearer"
    THEN Bearer(Unwrap(ValueOf(h.attrs, "realm")),
                ValueOf(h.attrs, "service"), ValueOf(h.attrs, "scope"))
    ELSE Basic(Unwrap(ValueOf(h.attrs, "realm")))

Reordered(h) ==
    {Header(h.method, [i \in 1..Len(h.attrs) |-> h.attrs[p[i]]]) :
        p \in Permutations(1..Len(h.attrs))}

(* the pairs are those of the fields of the variant, each at most once,
   realm among them *)
Plain(h) ==
    /\ Keys(h.attrs) \subseteq FieldsOf(h.method)
    /\ \A k \in Keys(h.attrs) : Cardinality(Occurrences(h.attrs, k)) = 1
    /\ "realm" \in Keys(h.attrs)

C15_ParseResult ==
    (IsSome(output) /\ Plain(Unwrap(input))) =>
        /\ Unwrap(output) = [ok |-> TRUE, content |-> Written(Unwrap(input))]
        /\ \A h \in Reordered(Unwrap(input)) :
               from_www_authentication_header(h) = Unwrap(output)

(* the values without a backslash are parsed as the claim says *)
C15_PlainValuesParsed ==
    /\ input = Some(Header("Bearer", <<Attr("service", "registry.io"),
                                       Attr("realm", "Registry"),
                                       Attr("scope", "repo:a:pull")>>))
    /\ output = Some([ok |-> TRUE,
                      content |-> Bearer("Registry", Some("registry.io"),
                                         Some("repo:a:pull"))])

(* a backslash and a letter in the header become another character *)
C15_ValueAltered ==
    /\ input = Some(Header("Basic", <<Attr("realm", "a\\nb")>>))
    /\ output = Some([ok |-> TRUE, content |-> Basic("a\nb")])

(* ---- C17 ----
   Pairs whose key is not a field of the variant never cause a parse error
   and never change the result: a header parses to what it parses to
   without them, whenever that parses. *)
RECURSIVE WithoutUnknown(_, _)
WithoutUnknown(attrs, variant) ==
    IF attrs = <<>> THEN <<>>
    ELSE IF Head(attrs).key \in FieldsOf(variant)
         THEN <<Head(attrs)>> \o WithoutUnknown(Tail(attrs), variant)
         ELSE WithoutUnknown(Tail(attrs), variant)

Stripped(h) == Header(h.method, WithoutUnknown(h.attrs, h.method))

C17_UnknownKeysIgnored ==
    (/\ IsSome(output)
     /\ Stripped(Unwrap(input)) # Unwrap(input)
     /\ from_www_authentication_header(Stripped(Unwrap(input))).ok) =>
        Unwrap(output) = from_www_authentication_header(Stripped(Unwrap(input)))

(* an unknown key with a well-formed value is ignored *)
C17_Ignored ==
    /\ input = Some(Header("Basic", <<Attr("realm", "Registry"), Attr("foo", "bar"),
                                      Attr("service", "registry.io")>>))
    /\ output = Some([ok |-> TRUE, content |-> Basic("Registry")])

(* an unknown key whose value is not a JSON string fails the parse *)
C17_UnknownKeyFails ==
    /\ input = Some(Header("Basic", <<Attr("realm", "Registry"), Attr("foo", "a\\qb")>>))
    /\ output = Some(ParseErr("invalid JSON string"))

(* ---- C18 ----
   As stated: a header in which realm, service or scope occurs more than
   once parses, and the field holds the value of the first occurrence. *)
Repeated(h) == {k \in Keys(h.attrs) : Cardinality(Occurrences(h.attrs, k)) > 1}

C18_FirstOccurrenceWins ==
    (/\ IsSome(output)
     /\ Repeated(Unwrap(input)) \cap {"realm", "service", "scope"} # {}
     /\ "realm" \in Keys(Unwrap(input).attrs)) =>
        /\ Unwrap(output).ok
        /\ Unwrap(output).content.realm = Unwrap(ValueOf(Unwrap(input).attrs, "realm"))

(* ---- C18, amended ----
   A header in which a key that is a field of the parsed variant (realm,
   service or scope for Bearer, realm for Basic) occurs more than once does
   not parse: from_www_authentication_header returns an error and no
   challenge. *)
C18_DuplicateFieldFails ==
    (/\ IsSome(output)
     /\ Repeated(Unwrap(input)) \cap FieldsOf(Unwrap(input).method) # {}) =>
        ~Unwrap(output).ok

C18_Witness ==
    /\ input = Some(Header("Bearer", <<Attr("realm", "Registry"),
                                       Attr("service", "registry.io"),
                                       Attr("realm", "Registry")>>))
    /\ output = Some(ParseErr("duplicate field"))

(* for Basic, service is no field: its repetition is ignored *)
C18_BasicRepeatedServiceIgnored ==
    /\ input = Some(Header("Basic", <<Attr("service", "registry.io"),
                                      Attr("realm", "Registry"),
                                      Attr("service", "registry.io")>>))
    /\ output = Some([ok |-> TRUE, content |-> Basic("Registry")])

(* ---- C19 ----
   Two calls on two clients, interleaved in any way: the outcome and the
   credential of each client are those of its call run alone against the
   responses it read, and a client in the caller's hands holds a credential
   only as the value an authenticate returned. *)
Alone(p) ==
    LET me0 == [credentials |-> p.credentials, base_url |-> p.base_url,
                auth |-> None, scopes |-> p.scopes, content |-> None,
                masked |-> None]
        me(s) == [me0 EXCEPT !.auth = s.auth, !.content = s.content,
                             !.masked = s.masked]
        s0 == authenticate_begin(me0)
        s1 == IF s0.pc = "probe" /\ IsSome(p.seen.probe)
              THEN after_probe(me(s0), Unwrap(p.seen.probe).reply,
                               Unwrap(p.seen.probe).header)
              ELSE s0
        s2 == IF s1.pc = "token" /\ IsSome(p.seen.token)
              THEN after_token(me(s1), Unwrap(p.seen.token).reply,
                               Unwrap(p.seen.token).body)
              ELSE s1
    IN IF s2.pc = "verify" /\ IsSome(p.seen.verify)
       THEN after_verify(me(s2), Unwrap(p.seen.verify))
       ELSE s2

====
